---- MODULE Spec2Model ----
(***************************************************************************)
(* Chemevol: the ChemModel engine (construction, load_sfh, sfr,            *)
(* supernova_rate, gas_metal_dust_mass) and the BulkEvolve.evolve_all      *)
(* driver of src/chemevol/evolve.py.                                       *)
(*                                                                         *)
(* Units.  Times are integers in units of 1e-3 Gyr (so prev_t = 1e-3 is 1),*)
(* masses in units of 1e6 Msun, rates in mass units per time unit (so a    *)
(* star-formation rate of 1 Msun/yr = 1e9 Msun/Gyr is 1).  The floating    *)
(* point ratios of the code (metallicity, dust/gas, dust/metals) are fixed *)
(* point numbers with FP steps per unit; Quot is the rounding division.    *)
(* Progenitor masses of the supernova integral are in units of 0.01 Msun.  *)
(*                                                                         *)
(* functions.py and lookups.py are not part of the sources at hand: the    *)
(* operators that stand for their functions follow the specification text  *)
(* and the docstrings of evolve.py.                                        *)
(***************************************************************************)
EXTENDS Integers, Sequences, FiniteSets, TLC

\* ------------------------------------------------------------- bounds
GridLen == 3        \* rows of an SFH file
MaxCalls == 4       \* method calls a script makes on one instance
MaxBatch == 2       \* configurations in a batch
FP == 100           \* fixed point steps per unit of a ratio

\* -------------------------------------------------- program constants
T0 == 1             \* prev_t = 1e-3 Gyr
YearsPerUnit == 1000000  \* scale[0] = 1e-9 Gyr per year, in units of 1e-3 Gyr
DmFine == 1         \* dm = 0.01
DmCoarse == 50      \* dm = 0.5
MCoarse == 1000     \* m > 10.
MMax == 4000        \* while m < 40.
MDefault == 900     \* m = 9.
TLookup == 49       \* t < 0.049
OxyPct == 64        \* 0.64 * inflows['metals']

\* ------------------------------------------------------------ helpers
Abs(x) == IF x < 0 THEN -x ELSE x

\* a / b for b > 0, rounded to the fixed point grid (toward minus infinity)
Quot(a, b) == a \div b

Last(s) == s[Len(s)]

Column(rows, c) == [i \in 1..Len(rows) |-> rows[i][c]]

\* ------------------------------------------------- input dictionaries
\* The keys read by ChemModel.__init__, in the order of its try block.
KeyOrder ==
    << "gasmass_init", "gamma", "t_end", "IMF_fn", "dust_source",
       "delta_lims_fresh", "reduce_sn_dust", "destroy", "inflows", "outflows",
       "SFH", "cold_gas_fraction", "available_metal_fraction",
       "effective_snrate_factor", "epsilon_grain" >>

\* The attribute each key is stored in.
AttrOf(key) ==
    CASE key = "t_end" -> "tend"
      [] key = "IMF_fn" -> "imf_type"
      [] key = "delta_lims_fresh" -> "delta_lims"
      [] key = "reduce_sn_dust" -> "reduce_sn"
      [] key = "SFH" -> "SFH_file"
      [] key = "cold_gas_fraction" -> "coldfraction"
      [] key = "available_metal_fraction" -> "availablefraction"
      [] key = "effective_snrate_factor" -> "eff_snrate"
      [] key = "epsilon_grain" -> "epsilon"
      [] OTHER -> key

ChabAliases == {"Chab", "chab", "c"}
TopChabAliases == {"TopChab", "topchab", "tc"}
KroupAliases == {"Kroup", "kroup", "k"}
SalpAliases == {"Salp", "salp", "s"}

AllAliases == {"ALL", "all", "All"}
SNAliases == {"SN", "Sn", "sn"}
LIMSAliases == {"LIMS", "Lims", "lims"}
SNLIMSAliases == {"SN+LIMS", "sn+lims", "LIMS+SN", "lims+sn"}

\* ----------------------------------------------------- lookups (SFH)
\* find_nearest(array, value): index of the row whose first column is nearest
\* to value, ties toward the lower index (lookups.py, specification 4.1).
NearestIndex(rows, v) ==
    CHOOSE i \in 1..Len(rows) :
        \A j \in 1..Len(rows) :
            \/ Abs(rows[i][1] - v) < Abs(rows[j][1] - v)
            \/ Abs(rows[i][1] - v) = Abs(rows[j][1] - v) /\ i <= j

find_nearest(rows, v) == rows[NearestIndex(rows, v)]

\* extra_sfh(sfh, gamma) for gamma = 0: the history is extended backwards to
\* start at 1e-3 Gyr with the flat power law through its first row; it needs two
\* rows to anchor the fit (specification 3 and 6).
extra_sfh(sfh, gamma) ==
    IF sfh[1][1] > T0 THEN << <<T0, sfh[1][2]>> >> \o sfh ELSE sfh

\* np.loadtxt and extra_sfh succeed on this file content.
Parses(content) ==
    /\ Len(content) >= 2
    /\ \A i \in 1..Len(content) : content[i][1] >= 0

\* vals * scale: years to time units, Msun/yr to mass units per time unit.
Scaled(vals) ==
    [i \in 1..Len(vals) |-> <<vals[i][1] \div YearsPerUnit, vals[i][2]>>]

NoSfhMsg == "No SFH yet"
NoParseMsg == "File will not parse"
NoParamsMsg == "You must provide initial parameters in the correct format"
\* The line printed before exit() (line 121).
DustSourceMsg == "oops please check the dust sources are in the right format and try again"

\* load_sfh whose except branch leaves an empty history instead of None.
load_sfh_EmptyOnError(content, gamma) ==
    IF Parses(content)
    THEN [sfh |-> extra_sfh(Scaled(content), gamma), sfh_none |-> FALSE,
          logs |-> <<>>]
    ELSE [sfh |-> <<>>, sfh_none |-> FALSE, logs |-> <<NoParseMsg>>]

\* ChemModel.load_sfh: the value of self.sfh and whether it is None.
load_sfh(content, gamma) ==
    IF Parses(content)
    THEN [sfh |-> extra_sfh(Scaled(content), gamma), sfh_none |-> FALSE,
          logs |-> <<>>]
    ELSE [sfh |-> <<>>, sfh_none |-> TRUE, logs |-> <<NoParseMsg>>]

\* ChemModel.sfr(t): "value" with the rate, or "none" with the logged error
\* (the bare except swallows every failure of the lookup and returns None).
sfr_call(s, t) ==
    IF "sfh" \in s.attrs /\ ~s.sfh_none /\ s.sfh # <<>>
    THEN [kind |-> "value", value |-> find_nearest(s.sfh, t)[2], logs |-> <<>>]
    ELSE [kind |-> "none", value |-> 0, logs |-> <<NoSfhMsg>>]

\* self.sfr(t) inside the engine, where the history is loaded.
sfr(s, t) == sfr_call(s, t).value

\* The time filter with time <= self.tend.
TimeGrid_Inclusive(s) == SelectSeq(Column(s.sfh, 1), LAMBDA t : t <= s.tend)

\* time = self.sfh[:,0]; time = time[time < self.tend]
TimeGrid(s) == SelectSeq(Column(s.sfh, 1), LAMBDA t : t < s.tend)

\* -------------------------------------------------------- construction
DefaultSFH == "chemevol/Milkyway.sfh"

\* The instance before __init__ has stored anything.
BlankSelf ==
    [attrs |-> {}, gasmass_init |-> 0, gamma |-> 0, tend |-> 0,
     imf_type |-> "", dust_source |-> "", delta_lims |-> 0, reduce_sn |-> 0,
     destroy |-> [on |-> FALSE, mass |-> 0],
     inflows |-> [on |-> FALSE, xSFR |-> 0, metals |-> 0, dust |-> 0],
     outflows |-> [on |-> FALSE, metals |-> FALSE, dust |-> FALSE],
     SFH_file |-> "", coldfraction |-> 0, availablefraction |-> 0,
     eff_snrate |-> 0, epsilon |-> 0,
     sfh |-> <<>>, sfh_none |-> FALSE, imf |-> "",
     choice_dust |-> [sn |-> FALSE, lims |-> FALSE, gg |-> FALSE]]

\* Index of the first key of KeyOrder missing from the inputs (Len + 1: none).
FirstMissing(inputs) ==
    IF \A i \in 1..Len(KeyOrder) : KeyOrder[i] \in inputs.keys
    THEN Len(KeyOrder) + 1
    ELSE CHOOSE i \in 1..Len(KeyOrder) :
             /\ KeyOrder[i] \notin inputs.keys
             /\ \A j \in 1..(i - 1) : KeyOrder[j] \in inputs.keys

\* The IMF function chosen for an alias ("" when no branch matches).
ImfChoice(alias) ==
    CASE alias \in ChabAliases -> "imf_chab"
      [] alias \in TopChabAliases -> "imf_topchab"
      [] alias \in KroupAliases -> "imf_kroup"
      [] alias \in SalpAliases -> "imf_salp"
      [] OTHER -> ""

DustSourceKnown(src) ==
    src \in AllAliases \cup SNAliases \cup LIMSAliases \cup SNLIMSAliases

\* The dust choice with grain growth left on for the SN aliases.
ChoiceDust_GrowthForSN(src) ==
    CASE src \in AllAliases -> [sn |-> TRUE, lims |-> TRUE, gg |-> TRUE]
      [] src \in SNAliases -> [sn |-> TRUE, lims |-> FALSE, gg |-> TRUE]
      [] src \in LIMSAliases -> [sn |-> FALSE, lims |-> TRUE, gg |-> FALSE]
      [] OTHER -> [sn |-> TRUE, lims |-> TRUE, gg |-> FALSE]

\* self.choice_dust for a recognised dust source.
ChoiceDust(src) ==
    CASE src \in AllAliases -> [sn |-> TRUE, lims |-> TRUE, gg |-> TRUE]
      [] src \in SNAliases -> [sn |-> TRUE, lims |-> FALSE, gg |-> FALSE]
      [] src \in LIMSAliases -> [sn |-> FALSE, lims |-> TRUE, gg |-> FALSE]
      [] OTHER -> [sn |-> TRUE, lims |-> TRUE, gg |-> FALSE]

\* self.reduce_sn without the test for a factor of 0.
ReduceSn_NoZeroGuard(r) == IF ~r.on THEN 1 ELSE r.factor

\* self.reduce_sn after lines 91-94.
ReduceSn(r) == IF ~r.on \/ r.factor = 0 THEN 1 ELSE r.factor

\* The attributes stored from the keys before the first missing one.
Stored(inputs) == {AttrOf(KeyOrder[i]) : i \in 1..(FirstMissing(inputs) - 1)}

StoreAttrs(inputs, stored) ==
    [BlankSelf EXCEPT
       !.attrs = stored,
       !.gasmass_init = IF "gasmass_init" \in stored THEN inputs.gasmass_init ELSE @,
       !.gamma = IF "gamma" \in stored THEN inputs.gamma ELSE @,
       !.tend = IF "tend" \in stored THEN inputs.t_end ELSE @,
       !.imf_type = IF "imf_type" \in stored THEN inputs.IMF_fn ELSE @,
       !.dust_source = IF "dust_source" \in stored THEN inputs.dust_source ELSE @,
       !.delta_lims = IF "delta_lims" \in stored THEN inputs.delta_lims_fresh ELSE @,
       !.destroy = IF "destroy" \in stored THEN inputs.destroy ELSE @,
       !.inflows = IF "inflows" \in stored THEN inputs.inflows ELSE @,
       !.outflows = IF "outflows" \in stored THEN inputs.outflows ELSE @,
       !.SFH_file = IF "SFH_file" \in stored THEN inputs.SFH ELSE @,
       !.coldfraction = IF "coldfraction" \in stored THEN inputs.cold_gas_fraction ELSE @,
       !.availablefraction =
           IF "availablefraction" \in stored THEN inputs.available_metal_fraction ELSE @,
       !.eff_snrate = IF "eff_snrate" \in stored THEN inputs.effective_snrate_factor ELSE @,
       !.epsilon = IF "epsilon" \in stored THEN inputs.epsilon_grain ELSE @]

\* Lines 76-79: the default file name, then load_sfh.
LoadInto(s, file, ld) ==
    [self |-> [s EXCEPT !.attrs = @ \cup {"sfh_file", "sfh"},
                        !.SFH_file = file,
                        !.sfh = ld.sfh,
                        !.sfh_none = ld.sfh_none],
     logs |-> ld.logs]

FileName(inputs) == IF inputs.SFH = "" THEN DefaultSFH ELSE inputs.SFH

FileContent(disk, file) == IF file \in DOMAIN disk THEN disk[file] ELSE <<>>

\* The try block of __init__: the attributes stored before the first missing
\* key; with no key missing, the SFH file name is defaulted and load_sfh runs.
TryBlock(inputs, disk) ==
    IF FirstMissing(inputs) > Len(KeyOrder)
    THEN LoadInto(StoreAttrs(inputs, Stored(inputs)), FileName(inputs),
                  load_sfh(FileContent(disk, FileName(inputs)), inputs.gamma))
    ELSE [self |-> StoreAttrs(inputs, Stored(inputs)), logs |-> <<NoParamsMsg>>]

\* Lines 83-122 of __init__, after the try block left the instance s.
AfterTry(inputs, s, logs) ==
    IF "imf_type" \notin s.attrs \/ "reduce_sn" \notin s.attrs
       \/ "dust_source" \notin s.attrs
    THEN [self |-> BlankSelf, logs |-> logs, prints |-> <<>>,
          outcome |-> "AttributeError"]
    ELSE IF ~DustSourceKnown(s.dust_source)
    THEN [self |-> BlankSelf, logs |-> logs, prints |-> <<DustSourceMsg>>,
          outcome |-> "SystemExit"]
    ELSE [self |-> [s EXCEPT
                      !.imf = ImfChoice(s.imf_type),
                      !.reduce_sn = ReduceSn(inputs.reduce_sn_dust),
                      !.choice_dust = ChoiceDust(s.dust_source),
                      !.attrs = @ \cup {"choice_dust"}
                                  \cup (IF ImfChoice(s.imf_type) # ""
                                        THEN {"imf"} ELSE {})],
          logs |-> logs, prints |-> <<>>, outcome |-> "ok"]

\* ChemModel.__init__(**inputs): the instance, the messages logged and printed
\* and how the constructor ends: "ok", "AttributeError" (an attribute the try block did not
\* store is read) or "SystemExit" (exit() on an unknown dust source).
InitOf(inputs, tb) == AfterTry(inputs, tb.self, tb.logs)

InitModel(inputs, disk) == InitOf(inputs, TryBlock(inputs, disk))

\* ------------------------------------------- physical rate functions
\* (functions.py; specification 4.2 and the docstrings of the time loop)

\* astration(mass, gasmass, sfr) = mass/gasmass * sfr, 0 without gas.
astration(mass, mg, rate) == IF mg > 0 THEN Quot(mass * rate, mg) ELSE 0

\* outflows_feldmann(mstars): the outflow rate per unit star formation, which
\* falls with the stellar mass.
outflows_feldmann(mstars) == IF mstars < 2000 THEN 2 ELSE 1

\* gas_inandout(inflows_on, outflows_on, xSFR, sfr, mstars) = <<inflow, outflow>>
gas_inandout(inf_on, out_on, xSFR, rate, mstars) ==
    << IF inf_on THEN xSFR * rate ELSE 0,
       IF out_on THEN outflows_feldmann(mstars) * rate ELSE 0 >>

\* metals_inandout(...) = <<metals_inf, metals_out, oxymass_inf, oxymass_out>>:
\* the gas rates times the metallicity of the flow.
metals_inandout(inf_on, xSFR, inf_metals, out_on, out_metals, rate, metallicity, oxy_metallicity, oxy_metal_inflow, mstars) ==
    LET g == gas_inandout(inf_on, out_on, xSFR, rate, mstars)
    IN  << Quot(inf_metals * g[1], FP),
           IF out_metals THEN Quot(metallicity * g[2], FP) ELSE 0,
           Quot(oxy_metal_inflow * g[1], FP),
           IF out_metals THEN Quot(oxy_metallicity * g[2], FP) ELSE 0 >>

\* dust_inandout(...) = <<mdust_inf, mdust_out>>
dust_inandout(inf_on, xSFR, inf_dust, out_on, out_dust, rate, dust_to_gas, mstars) ==
    LET g == gas_inandout(inf_on, out_on, xSFR, rate, mstars)
    IN  << Quot(inf_dust * g[1], FP),
           IF out_dust THEN Quot(dust_to_gas * g[2], FP) ELSE 0 >>

\* graingrowth(on, epsilon, mg, sfr, Z, md, f_c, available) = <<mdust_gg, t_gg>>:
\* f_c * (1 - md / available metals) * md / t_gg, with the growth time
\* t_gg = mg / (epsilon * Z * sfr); off, or a non-positive denominator: 0.
graingrowth(gg_on, epsilon, mg, rate, metallicity, md, coldfraction, available) ==
    LET denom == epsilon * metallicity * rate
        t_gg == IF mg > 0 /\ denom > 0 THEN Quot(mg * FP, denom) ELSE 0
        m_av == Quot(available * metallicity * mg, 100 * FP)
        room == IF m_av > 0 THEN Quot(100 * (m_av - md), m_av) ELSE 0
    IN  IF ~gg_on \/ t_gg <= 0 THEN <<0, 0>>
        ELSE << Quot(md * coldfraction * room, 10000 * t_gg), t_gg >>

\* destroy_dust(on, mass, mg, r_sn, md, f_c, eff) = <<mdust_des, t_des>>:
\* (1 - f_c) * md / t_des with t_des = mg / (mass * eff * r_sn); off, or no
\* gas: 0.
destroy_dust(des_on, mass, mg, r_sn, md, coldfraction, eff_snrate) ==
    LET swept == Quot(mass * eff_snrate * r_sn, 100)
        per_time == IF mg > 0 THEN Quot(swept * FP, mg) ELSE 0
    IN  IF ~des_on \/ mg <= 0 \/ swept <= 0 THEN <<0, 0>>
        ELSE << Quot(md * (100 - coldfraction) * per_time, 100 * FP),
                Quot(mg, swept) >>

\* ------------------------------------------------- stellar lookup tables
\* t_lifetime: <<mass in 0.01 Msun, lifetime in time units>>, by rising mass.
t_lifetime == << <<200, 80>>, <<900, 45>>, <<1200, 20>>, <<2000, 10>>, <<4000, 5>> >>

\* lookup_fn(t_lifetime, 'lifetime_high_metals', t)[0]: the mass of the row whose
\* lifetime is nearest to t (ties toward the lower index).
lookup_fn(t) ==
    LET i == CHOOSE i \in 1..Len(t_lifetime) :
                 \A j \in 1..Len(t_lifetime) :
                     \/ Abs(t_lifetime[i][2] - t) < Abs(t_lifetime[j][2] - t)
                     \/ Abs(t_lifetime[i][2] - t) = Abs(t_lifetime[j][2] - t) /\ i <= j
    IN  t_lifetime[i][1]

\* Percent of the mass of a star returned as gas, fresh metals, oxygen and
\* supernova dust when it dies; stars above 8 Msun explode.
IsSN(m) == m >= 800
EjectedPct(m) == IF IsSN(m) THEN 80 ELSE 50
MetalPct(m) == IF IsSN(m) THEN 10 ELSE 5
OxyYieldPct(m) == IF IsSN(m) THEN 6 ELSE 1
SnDustPct(m) == IF IsSN(m) THEN 4 ELSE 0

\* imf(m) * m * dm: percent of the mass of newborn stars in the bin of mass m.
ImfMassPct(imf, m) ==
    CASE imf = "imf_chab" -> IF IsSN(m) THEN 10 ELSE 30
      [] imf = "imf_topchab" -> IF IsSN(m) THEN 15 ELSE 20
      [] imf = "imf_kroup" -> IF IsSN(m) THEN 8 ELSE 30
      [] imf = "imf_salp" -> IF IsSN(m) THEN 5 ELSE 35

\* initial_mass_function(m, imf_type): the number density at mass m.
initial_mass_function(m, imf_type) ==
    LET k == m \div 100
        norm == CASE imf_type \in ChabAliases -> 1600
                  [] imf_type \in TopChabAliases -> 3200
                  [] imf_type \in KroupAliases -> 1200
                  [] imf_type \in SalpAliases -> 800
    IN  IF k > 0 THEN norm \div (k * k) ELSE norm

\* mass_integral(choice, delta_lims, reduce_sn, t, Z, sfr_lookup, z_lookup,
\* oxy_lookup, imf) = <<gas_ej, metals_stars, oxymass_stars, mdust_stars>>: the
\* sum over the stars that die at t (born at t - lifetime > 0) of what they
\* return, with the star formation rate and metallicity of their birth time
\* looked up in the history recorded so far.
mass_integral(choice, delta_lims, reduce_sn, t, metallicity, sfr_lookup, z_lookup, oxy_lookup, imf) ==
    LET dying == {i \in 1..Len(t_lifetime) : t - t_lifetime[i][2] > 0}
        m(i) == t_lifetime[i][1]
        born(i) == t - t_lifetime[i][2]
        w(i) == find_nearest(sfr_lookup, born(i))[2] * ImfMassPct(imf, m(i))
        zb(i) == find_nearest(z_lookup, born(i))[2]
        ob(i) == find_nearest(oxy_lookup, born(i))[2]
        RECURSIVE Sum(_, _)
        Sum(f(_), S) == IF S = {} THEN 0
                        ELSE LET i == CHOOSE i \in S : TRUE
                             IN  f(i) + Sum(f, S \ {i})
        gas(i) == w(i) * EjectedPct(m(i))
        met(i) == w(i) * (MetalPct(m(i)) * FP + zb(i) * EjectedPct(m(i)))
        oxy(i) == w(i) * (OxyYieldPct(m(i)) * FP + ob(i) * EjectedPct(m(i)))
        dsn(i) == IF choice.sn /\ IsSN(m(i)) THEN w(i) * SnDustPct(m(i)) ELSE 0
        dli(i) == IF choice.lims /\ ~IsSN(m(i))
                  THEN w(i) * MetalPct(m(i)) * delta_lims ELSE 0
    IN  << Quot(Sum(gas, dying), 10000),
           Quot(Sum(met, dying), 10000 * FP),
           Quot(Sum(oxy, dying), 10000 * FP),
           Quot(Sum(dsn, dying), 10000 * reduce_sn)
             + Quot(Sum(dli, dying), 1000000) >>

\* ------------------------------------------------------ supernova_rate
\* sn_rate in units of 1e-5 per unit of star formation
SnUnit == 100000

\* The while loop over the progenitor mass, unrolled: with step dm it visits
\* m, m + dm, ... as long as the mass is not above 10 Msun (nFine iterations),
\* and from the first mass above 10 Msun on it sets dm = 0.5 and visits the
\* masses below 40 Msun in steps of 0.5 (nCoarse iterations).
FineSteps(m, dm) == IF m > MCoarse THEN 0 ELSE (MCoarse - m) \div dm + 1

CoarseSteps(m1) == IF m1 >= MMax THEN 0 ELSE (MMax - 1 - m1) \div DmCoarse + 1

\* initial_mass_function(m, imf_type)*dm of iteration i of the loop.
LoopTerm(i, m, dm, imf_type) ==
    IF i <= FineSteps(m, dm)
    THEN initial_mass_function(m + (i - 1) * dm, imf_type) * dm
    ELSE initial_mass_function(m + FineSteps(m, dm) * dm
                                 + (i - 1 - FineSteps(m, dm)) * DmCoarse,
                               imf_type) * DmCoarse

\* sn_rate += ... over the iterations lo..hi (summed by halves).
RECURSIVE LoopSum(_, _, _, _, _)
LoopSum(lo, hi, m, dm, imf_type) ==
    IF lo > hi THEN 0
    ELSE IF lo = hi THEN LoopTerm(lo, m, dm, imf_type)
    ELSE LoopSum(lo, (lo + hi) \div 2, m, dm, imf_type)
           + LoopSum((lo + hi) \div 2 + 1, hi, m, dm, imf_type)

\* The while loop over the progenitor mass: the sum and the dm it leaves.
MassLoop(m, dm, sn_rate, imf_type) ==
    [sn_rate |-> sn_rate
                   + LoopSum(1, FineSteps(m, dm)
                                  + CoarseSteps(m + FineSteps(m, dm) * dm),
                             m, dm, imf_type),
     dm |-> IF CoarseSteps(m + FineSteps(m, dm) * dm) > 0 THEN DmCoarse ELSE dm]

\* The minimum progenitor mass at time t.
MinMass(t) == IF t < TLookup THEN lookup_fn(t) ELSE MDefault

\* The locals of supernova_rate at the top of its loop.
SnInit(s) ==
    [sn_rate_list |-> <<>>, dm |-> DmFine, prev_t |-> T0,
     time |-> TimeGrid(s), k |-> 1]

\* The loop with "if r_sn > 0: sn_rate_list.append(r_sn)".
SnIterate_SkipsZero(s, L) ==
    LET t == L.time[L.k]
        loop == MassLoop(MinMass(t), L.dm, 0, s.imf_type)
        r_sn == Quot(sfr(s, t) * loop.sn_rate, SnUnit)
    IN  [L EXCEPT !.sn_rate_list = IF r_sn > 0 THEN Append(@, r_sn) ELSE @,
                  !.dm = loop.dm,
                  !.prev_t = t,
                  !.k = @ + 1]

\* One iteration of "for t in time".
SnIterate(s, L) ==
    LET t == L.time[L.k]
        loop == MassLoop(MinMass(t), L.dm, 0, s.imf_type)
        r_sn == Quot(sfr(s, t) * loop.sn_rate, SnUnit)
    IN  [L EXCEPT !.sn_rate_list = Append(@, r_sn),
                  !.dm = loop.dm,
                  !.prev_t = t,
                  !.k = @ + 1]

\* -------------------------------------------------- gas_metal_dust_mass
\* The locals with the previous time started at 0 instead of 1e-3 Gyr.
GmInit_PrevZero(s) ==
    [mg |-> s.gasmass_init, mstars |-> 0, md |-> 0, md_all |-> 0,
     md_stars |-> 0, md_gg |-> 0, metals |-> 0, prev_t |-> 0,
     metals_pre |-> 0, z |-> <<>>, sfr_list |-> <<>>, all_results |-> <<>>,
     oxymass |-> 0, oxymass_pre |-> 0, oxyz |-> <<>>,
     time |-> TimeGrid(s), item |-> 1, broke |-> FALSE,
     rates |-> [dmg |-> 0, dmetals |-> 0, doxymass |-> 0, ddust |-> 0,
                dmstars |-> 0, dust_source_all |-> 0, mdust_gg |-> 0,
                mdust_stars |-> 0, dt |-> 0]]

\* The locals of gas_metal_dust_mass when the time loop starts.
GmInit(s) ==
    [mg |-> s.gasmass_init, mstars |-> 0, md |-> 0, md_all |-> 0,
     md_stars |-> 0, md_gg |-> 0, metals |-> 0, prev_t |-> T0,
     metals_pre |-> 0, z |-> <<>>, sfr_list |-> <<>>, all_results |-> <<>>,
     oxymass |-> 0, oxymass_pre |-> 0, oxyz |-> <<>>,
     time |-> TimeGrid(s), item |-> 1, broke |-> FALSE,
     rates |-> [dmg |-> 0, dmetals |-> 0, doxymass |-> 0, ddust |-> 0,
                dmstars |-> 0, dust_source_all |-> 0, mdust_gg |-> 0,
                mdust_stars |-> 0, dt |-> 0]]

\* The right-hand sides with the ejected gas left in the stars.
RightHandSides_StarsKeepEjecta(L, rate, metals_ast, oxymass_ast, mdust_ast, g, mio, dio, gg, des, mi) ==
    [dmstars |-> rate,
     dmg |-> -rate + mi[1] + g[1] - g[2],
     dmetals |-> -metals_ast + mi[2] + L.metals_pre + mio[1] - mio[2],
     doxymass |-> -oxymass_ast + mi[3] + L.oxymass_pre + mio[3] - mio[4],
     ddust |-> -mdust_ast + mi[4] + dio[1] - dio[2] + gg[1] - des[1],
     dust_source_all |-> mi[4] + gg[1],
     mdust_gg |-> gg[1], mdust_stars |-> mi[4],
     t_des |-> des[2], t_gg |-> gg[2]]

\* dmg, dmetals, doxymass, ddust, dmstars and the dust sources of lines 266-278,
\* from the terms of the iteration: g = gas_inandout, mio = metals_inandout,
\* dio = dust_inandout, gg = graingrowth, des = destroy_dust, mi = mass_integral.
RightHandSides(L, rate, metals_ast, oxymass_ast, mdust_ast, g, mio, dio, gg, des, mi) ==
    [dmstars |-> rate - mi[1],
     dmg |-> -rate + mi[1] + g[1] - g[2],
     dmetals |-> -metals_ast + mi[2] + L.metals_pre + mio[1] - mio[2],
     doxymass |-> -oxymass_ast + mi[3] + L.oxymass_pre + mio[3] - mio[4],
     ddust |-> -mdust_ast + mi[4] + dio[1] - dio[2] + gg[1] - des[1],
     dust_source_all |-> mi[4] + gg[1],
     mdust_gg |-> gg[1], mdust_stars |-> mi[4],
     t_des |-> des[2], t_gg |-> gg[2]]

\* The terms of one iteration (lines 200-261), with rate = self.sfr(t), the
\* metallicities of lines 184-185 and the lookup arrays of lines 187-192.
Terms(s, L, r_sn, t, rate, metallicity, oxy_metallicity, z, oxyz, sfr_list) ==
    RightHandSides(L, rate,
        astration(L.metals, L.mg, rate),
        astration(L.oxymass, L.mg, rate),
        astration(L.md, L.mg, rate),
        gas_inandout(s.inflows.on, s.outflows.on, s.inflows.xSFR, rate, L.mstars),
        metals_inandout(s.inflows.on, s.inflows.xSFR, s.inflows.metals,
                        s.outflows.on, s.outflows.metals, rate,
                        metallicity, oxy_metallicity,
                        Quot(OxyPct * s.inflows.metals, 100), L.mstars),
        dust_inandout(s.inflows.on, s.inflows.xSFR, s.inflows.dust,
                      s.outflows.on, s.outflows.dust, rate,
                      Quot(L.md * FP, L.mg), L.mstars),
        graingrowth(s.choice_dust.gg, s.epsilon, L.mg, rate,
                    metallicity, L.md, s.coldfraction, s.availablefraction),
        destroy_dust(s.destroy.on, s.destroy.mass, L.mg, r_sn, L.md,
                     s.coldfraction, s.eff_snrate),
        mass_integral(s.choice_dust, s.delta_lims, s.reduce_sn, t,
                      metallicity, sfr_list, z, oxyz, s.imf))

\* metallicity = metals/mg; oxy_metallicity = oxymass/mg
Metallicity(L) == Quot(L.metals * FP, L.mg)
OxyMetallicity(L) == Quot(L.oxymass * FP, L.mg)

\* The right-hand sides evaluated in one iteration, from the state the previous
\* iteration left (lines 183-278).
Rates(s, L, r_sn, t) ==
    Terms(s, L, r_sn, t, sfr(s, t), Metallicity(L), OxyMetallicity(L),
          Append(L.z, <<t, Metallicity(L)>>),
          Append(L.oxyz, <<t, OxyMetallicity(L)>>),
          Append(L.sfr_list, <<t, sfr(s, t)>>))

\* The time step when prev_t is never advanced.
ElapsedTime_FromStart(t, prev_t) == t - T0

\* dt = t - prev_t
ElapsedTime(t, prev_t) == t - prev_t

\* if mg <= 0: ... break
GasExhausted(mg) == mg <= 0

\* The break placed after the append.
OnExhaust_Appends(L, rec) ==
    [L EXCEPT !.broke = TRUE, !.all_results = Append(@, rec)]

\* The exhausted step skipped with continue instead of break.
OnExhaust_Continues(L, rec) == [L EXCEPT !.item = @ + 1]

\* The break leaves the loop before anything is appended.
OnExhaust(L, rec) == [L EXCEPT !.broke = TRUE]

\* dust/metals ratio of lines 295-298.
DustToMetals(mg, metals, md) ==
    IF mg <= 0 \/ metals <= 0 THEN 0 ELSE Quot(md * FP, metals)

\* The tuple appended to all_results (lines 299-301).
Record(t, mg, mstars, metals, metallicity, md, rate, md_all, md_stars, md_gg, t_des, t_gg, oxymass) ==
    [t |-> t, mg |-> mg, mstars |-> mstars, metals |-> metals,
     metallicity |-> metallicity, md |-> md,
     dust_to_metals |-> DustToMetals(mg, metals, md),
     sfr |-> rate, md_all |-> md_all, md_stars |-> md_stars,
     md_gg |-> md_gg, t_des |-> t_des, t_gg |-> t_gg, oxymass |-> oxymass]

\* The record written over the last one instead of appended.
Integrate_Overwrites(L, rec) ==
    [L EXCEPT !.metals = rec.metals, !.oxymass = rec.oxymass, !.md = rec.md,
              !.md_all = rec.md_all, !.md_gg = rec.md_gg,
              !.md_stars = rec.md_stars,
              !.all_results = IF @ = <<>> THEN <<rec>>
                              ELSE [@ EXCEPT ![Len(@)] = rec],
              !.item = @ + 1]

\* Lines 287-301: the remaining integrals and the appended record.
Integrate(L, rec) ==
    [L EXCEPT !.metals = rec.metals, !.oxymass = rec.oxymass, !.md = rec.md,
              !.md_all = rec.md_all, !.md_gg = rec.md_gg,
              !.md_stars = rec.md_stars,
              !.all_results = Append(@, rec),
              !.item = @ + 1]

\* The loop without the break: the step is integrated whatever the gas mass.
Advance_NoBreak(L, mg, rec) == Integrate(L, rec)

\* Lines 279-286: the time step, the stellar and gas integrals, the break.
Advance(L, mg, rec) ==
    IF GasExhausted(mg) THEN OnExhaust(L, rec) ELSE Integrate(L, rec)

\* Lines 183-192 and 279-282: the lookup arrays, prev_t, mstars and mg as the
\* iteration leaves them, with the rates it used.
Carry(L, t, r, dt, z, oxyz, sfr_list) ==
    [L EXCEPT !.z = z, !.oxyz = oxyz, !.sfr_list = sfr_list,
              !.prev_t = t,
              !.mstars = @ + r.dmstars * dt,
              !.mg = @ + r.dmg * dt,
              !.rates = [dmg |-> r.dmg, dmetals |-> r.dmetals,
                         doxymass |-> r.doxymass, ddust |-> r.ddust,
                         dmstars |-> r.dmstars,
                         dust_source_all |-> r.dust_source_all,
                         mdust_gg |-> r.mdust_gg, mdust_stars |-> r.mdust_stars,
                         dt |-> dt]]

\* The iteration with the grain-growth source left out of the md_gg integral.
Iterate_GrowthNotIntegrated(s, L, t, r, dt) ==
    Advance(Carry(L, t, r, dt,
                  Append(L.z, <<t, Metallicity(L)>>),
                  Append(L.oxyz, <<t, OxyMetallicity(L)>>),
                  Append(L.sfr_list, <<t, sfr(s, t)>>)),
            L.mg + r.dmg * dt,
            Record(t, L.mg + r.dmg * dt, L.mstars + r.dmstars * dt,
                   L.metals + r.dmetals * dt, Metallicity(L),
                   L.md + r.ddust * dt, sfr(s, t),
                   L.md_all + r.dust_source_all * dt,
                   L.md_stars + r.mdust_stars * dt,
                   L.md_gg,
                   r.t_des, r.t_gg, L.oxymass + r.doxymass * dt))

\* One iteration with the rates r and the time step dt.
Iterate(s, L, t, r, dt) ==
    Advance(Carry(L, t, r, dt,
                  Append(L.z, <<t, Metallicity(L)>>),
                  Append(L.oxyz, <<t, OxyMetallicity(L)>>),
                  Append(L.sfr_list, <<t, sfr(s, t)>>)),
            L.mg + r.dmg * dt,
            Record(t, L.mg + r.dmg * dt, L.mstars + r.dmstars * dt,
                   L.metals + r.dmetals * dt, Metallicity(L),
                   L.md + r.ddust * dt, sfr(s, t),
                   L.md_all + r.dust_source_all * dt,
                   L.md_stars + r.mdust_stars * dt,
                   L.md_gg + r.mdust_gg * dt,
                   r.t_des, r.t_gg, L.oxymass + r.doxymass * dt))

\* One iteration of the time loop (lines 182-301).
GmIterate(s, L, sn_rate) ==
    Iterate(s, L, L.time[L.item],
            Rates(s, L, sn_rate[L.item], L.time[L.item]),
            ElapsedTime(L.time[L.item], L.prev_t))

\* ---------------------------------------------------------------- state
VARIABLES
    disk,         \* the files: an SFH file name -> rows <<years, Msun/yr>>, the
                  \* batch file -> its content, a written "<name>.dat" -> its table
    inits,        \* the input dictionaries handed to the driver (BulkEvolve.inits)
    driver,       \* "script" (one ChemModel) or "bulk" (BulkEvolve)
    bulk,         \* the BulkEvolve instance: the attributes set, the shape of inits
    gal,          \* evolve_all: index in inits of the item being processed
    pc,           \* position of the program
    self,         \* the attributes of the current ChemModel instance
    log,          \* the messages logged with logger.error and logger.warning
    stdout,       \* the messages printed
    sn,           \* the locals of the supernova_rate call in progress
    gm,           \* the locals of the gas_metal_dust_mass call in progress
    snrate,       \* the driver's variable snrate
    all_results,  \* the driver's variable all_results
    sfr_ret,      \* what the script's last call of sfr returned
    sn_returns,   \* the series supernova_rate has returned, in call order, each
                  \* with the history it was computed from
    gm_returns,   \* the values gas_metal_dust_mass has returned, with the exit taken
    galaxies,     \* evolve_all: the list galaxies
    results,      \* BulkEvolve.results: <<galaxies>> once assigned
    calls         \* number of method calls the script has made

vars == << disk, inits, driver, bulk, gal, pc, self, log, stdout, sn, gm, snrate,
           all_results, sfr_ret, sn_returns, gm_returns, galaxies, results, calls >>

OopsMsg == "Oops you have no interstellar medium left"
\* The line printed before the return (line 302), without the elapsed time.
LoopMsg == "Gas, metal and dust mass exterior loop"
\* The messages of BulkEvolve, without the names formatted into them.
FileMissingMsg == "File does not exist"
JsonMsg == "Cannot read: Are you sure this is a JSON file?"
CsvMsg == "Cannot read: Are you sure this is a CSV file?"
StartMsg == "Starting run on"

\* ------------------------------------------------------------ the inputs
SfrVals == {100, 400}
GasVals == {3000, 30000}
BigT == 1000

\* The i-th tabulated time of a file, in time units: a non-uniform grid.
TimeAt(i) == IF i = 1 THEN T0 ELSE 10 * (i - 1) * (i - 1)

\* An SFH file of GridLen rows that starts after 1e-3 Gyr.
FileRows(pattern) ==
    [i \in 1..GridLen |-> <<TimeAt(i + 1) * YearsPerUnit, pattern[i]>>]

\* The star formation rates of a file: constant, or one change of level after
\* the first row.
Patterns ==
    { [i \in 1..GridLen |-> IF i <= k THEN a ELSE b] :
        k \in {1, GridLen}, a \in SfrVals, b \in SfrVals }

\* The times a script asks the star formation rate for.
SfrTimes == {TimeAt(2)}

Unparsable == << <<-1, 0>> >>

BaseInputs ==
    [keys |-> {KeyOrder[i] : i \in 1..Len(KeyOrder)} \cup {"name"},
     name |-> "gal", gasmass_init |-> 3000, gamma |-> 0, t_end |-> BigT,
     IMF_fn |-> "Chab", dust_source |-> "ALL", delta_lims_fresh |-> 40,
     reduce_sn_dust |-> [on |-> FALSE, factor |-> 0],
     destroy |-> [on |-> FALSE, mass |-> 0],
     inflows |-> [on |-> FALSE, xSFR |-> 0, metals |-> 0, dust |-> 0],
     outflows |-> [on |-> FALSE, metals |-> FALSE, dust |-> FALSE],
     SFH |-> "a.sfh", cold_gas_fraction |-> 50, available_metal_fraction |-> 30,
     effective_snrate_factor |-> 36, epsilon_grain |-> 50]

DustSources == {"ALL", "SN", "LIMS+SN"}
TEnds == {TimeAt(GridLen + 1), BigT}
Destroys == {[on |-> FALSE, mass |-> 10], [on |-> TRUE, mass |-> 50]}
Flows ==
    { <<[on |-> FALSE, xSFR |-> 1, metals |-> 1, dust |-> 1],
        [on |-> FALSE, metals |-> TRUE, dust |-> TRUE]>>,
      <<[on |-> TRUE, xSFR |-> 1, metals |-> 2, dust |-> 1],
        [on |-> FALSE, metals |-> TRUE, dust |-> TRUE]>>,
      <<[on |-> FALSE, xSFR |-> 1, metals |-> 1, dust |-> 1],
        [on |-> TRUE, metals |-> TRUE, dust |-> TRUE]>> }
Reduces == {[on |-> FALSE, factor |-> 5], [on |-> TRUE, factor |-> 0],
            [on |-> TRUE, factor |-> 5]}

\* The valid Configurations: every destruction and flow setting with all dust
\* sources on, the other dust sources without destruction and flows, every
\* reduction setting with the Chabrier IMF, and the Salpeter IMF.
ValidInputs ==
    { [BaseInputs EXCEPT !.gasmass_init = g, !.destroy = d,
                         !.inflows = f[1], !.outflows = f[2]] :
        g \in GasVals, d \in Destroys, f \in Flows }
    \cup { [BaseInputs EXCEPT !.gasmass_init = g, !.dust_source = ds,
                              !.destroy = [on |-> FALSE, mass |-> 10],
                              !.inflows = [on |-> FALSE, xSFR |-> 1,
                                           metals |-> 1, dust |-> 1],
                              !.outflows = [on |-> FALSE, metals |-> TRUE,
                                            dust |-> TRUE]] :
             g \in GasVals, ds \in DustSources }
    \cup { [BaseInputs EXCEPT !.gasmass_init = 30000, !.t_end = te,
                              !.reduce_sn_dust = r] :
             te \in TEnds, r \in Reduces }
    \cup { [BaseInputs EXCEPT !.gasmass_init = 30000, !.t_end = te,
                              !.reduce_sn_dust = r, !.IMF_fn = "s"] :
             te \in TEnds, r \in {[on |-> FALSE, factor |-> 5]} }
    \cup { [BaseInputs EXCEPT !.gasmass_init = 30000, !.t_end = te,
                              !.dust_source = ds] :
             te \in TEnds, ds \in {"Sn", "lims"} }

\* The Configurations that are run on every file: the defaults with either
\* initial gas mass.
CoreInputs == { [BaseInputs EXCEPT !.gasmass_init = g] : g \in GasVals }

\* The rates of the file the other Configurations are run on.
MainPattern == [i \in 1..GridLen |-> 400]

AllKeys == {KeyOrder[i] : i \in 1..Len(KeyOrder)}

\* Inputs with a required key missing, an unreadable or unnamed SFH file, an
\* unknown dust source or an unknown IMF.
FaultyInputs ==
    { [BaseInputs EXCEPT !.keys = @ \ {k}] : k \in AllKeys }
    \cup { [BaseInputs EXCEPT !.SFH = f] : f \in {"bad.sfh", "none.sfh", ""} }
    \cup { [BaseInputs EXCEPT !.dust_source = "dust"] }
    \cup { [BaseInputs EXCEPT !.IMF_fn = "imf"] }

\* The files on disk: a.sfh holds the given rates, bad.sfh does not parse.
Disk(pattern) ==
    [f \in {"a.sfh", "bad.sfh", DefaultSFH} |->
       CASE f = "a.sfh" -> FileRows(pattern)
         [] f = "bad.sfh" -> Unparsable
         [] OTHER -> FileRows([i \in 1..GridLen |-> 100])]

NoSn == [sn_rate_list |-> <<>>, dm |-> 0, prev_t |-> 0, time |-> <<>>, k |-> 0]
NoGm == [GmInit(BlankSelf) EXCEPT !.item = 0]

\* The file BulkEvolve is given.
BatchName == "batch"

\* The column names of upload_csv (lines 355-358); every one becomes a key.
CsvNames ==
    {"name", "gasmass_init", "SFH", "t_end", "gamma", "IMF_fn", "dust_source",
     "delta_lims_fresh", "reduce_sn_dust_on", "reduce_sn_dust_factor",
     "destroy_on", "mass_destroy", "inflows_on", "inflows_metals",
     "inflows_xSFR", "inflows_dust", "outflows_on", "outflows_metals",
     "outflows_dust", "cold_gas_fraction", "available_metal_fraction",
     "effective_snrate_factor", "epsilon_grain"}

\* What the columns of dtype 'S10' and 'S30' hold: str where the build's str
\* is a byte string, bytes otherwise.
Builds == {"str", "bytes"}

\* A value of an 'S' column: a bytes object equals no str, so no alias, no
\* file name.
CsvStr(x, build) == IF build = "bytes" THEN "b'" \o x \o "'" ELSE x

\* upload_csv, lines 370-383: the dictionary made of a row.
CsvItem(c, build) ==
    [c EXCEPT !.keys = CsvNames \cup {"reduce_sn_dust", "inflows", "outflows",
                                      "destroy"},
              !.name = CsvStr(@, build),
              !.SFH = CsvStr(@, build),
              !.IMF_fn = CsvStr(@, build),
              !.dust_source = CsvStr(@, build)]

\* No BulkEvolve instance, or one on which __init__ and upload set nothing.
NoBulk == [attrs |-> {}, shape |-> "none", keys |-> <<>>]

InitCommon ==
    /\ bulk = NoBulk
    /\ gal = 1
    /\ self = BlankSelf
    /\ log = <<>>
    /\ stdout = <<>>
    /\ sn = NoSn
    /\ gm = NoGm
    /\ snrate = <<>>
    /\ all_results = <<>>
    /\ sfr_ret = [kind |-> "unset", value |-> 0]
    /\ sn_returns = <<>>
    /\ gm_returns = <<>>
    /\ galaxies = <<>>
    /\ results = <<>>
    /\ calls = 0

\* A script builds one ChemModel and calls its methods.
Init ==
    /\ \/ \E p \in Patterns, c \in CoreInputs :
              disk = Disk(p) /\ inits = <<c>>
       \/ \E c \in ValidInputs \cup FaultyInputs :
              disk = Disk(MainPattern) /\ inits = <<c>>
    /\ driver = "script"
    /\ pc = "start"
    /\ InitCommon

\* -------------------------------------------------------------- actions
\* How a constructor outcome continues: the instance is usable at `next`, or
\* the exception (or exit()) leaves the program.
AfterInit(outcome, next) ==
    CASE outcome = "ok" -> next
      [] outcome = "SystemExit" -> "exited"
      [] OTHER -> "raised"

\* ch = ChemModel(**inits) in a script.
ScriptConstruct ==
    /\ driver = "script"
    /\ pc = "start"
    /\ LET r == InitModel(inits[1], disk)
       IN  /\ self' = r.self
           /\ log' = log \o r.logs
           /\ stdout' = stdout \o r.prints
           /\ pc' = AfterInit(r.outcome, "ready")
    /\ UNCHANGED << disk, inits, driver, bulk, gal, sn, gm, snrate, all_results,
                    sfr_ret, sn_returns, gm_returns, galaxies, results, calls >>

\* ch.sfr(t) called by a script.
CallSfr ==
    /\ driver = "script"
    /\ pc = "ready"
    /\ calls < MaxCalls
    /\ \E t \in SfrTimes :
          LET r == sfr_call(self, t)
          IN  /\ sfr_ret' = [kind |-> r.kind, value |-> r.value]
              /\ log' = log \o r.logs
    /\ calls' = calls + 1
    /\ UNCHANGED << disk, inits, driver, bulk, gal, pc, self, stdout, sn, gm, snrate,
                    all_results, sn_returns, gm_returns, galaxies, results >>

\* ch.load_sfh() called by a script on the constructed instance: the file named
\* by self.SFH_file is read again (lines 128-137). Every exception of the try
\* body is caught, a missing self.gamma included; the handler itself reads
\* self.SFH_file and raises when the constructor never set it.
CallLoadSfh ==
    /\ driver = "script"
    /\ pc = "ready"
    /\ calls < MaxCalls
    /\ IF "SFH_file" \in self.attrs
       THEN LET ld == IF "gamma" \in self.attrs
                      THEN load_sfh(FileContent(disk, self.SFH_file), self.gamma)
                      ELSE [sfh |-> <<>>, sfh_none |-> TRUE,
                            logs |-> <<NoParseMsg>>]
            IN  /\ self' = [self EXCEPT !.attrs = @ \cup {"sfh"},
                                        !.sfh = ld.sfh,
                                        !.sfh_none = ld.sfh_none]
                /\ log' = log \o ld.logs
                /\ pc' = pc
       ELSE /\ pc' = "raised"
            /\ UNCHANGED << self, log >>
    /\ calls' = calls + 1
    /\ UNCHANGED << disk, inits, driver, bulk, gal, stdout, sn, gm, snrate, all_results,
                    sfr_ret, sn_returns, gm_returns, galaxies, results >>

\* The contents an SFH file is replaced with between two calls.
NewContents ==
    {Unparsable,
     [i \in 1..(GridLen + 1) |-> <<TimeAt(i + 1) * YearsPerUnit, 400>>]}

\* The files after `file` was written with `content`.
Written(files, file, content) ==
    [f \in DOMAIN files \cup {file} |-> IF f = file THEN content ELSE files[f]]

\* The file the instance names is written anew between two calls of the
\* script; nothing reads it until load_sfh is called.
RewriteSfhFile ==
    /\ driver = "script"
    /\ pc = "ready"
    /\ calls < MaxCalls
    /\ "SFH_file" \in self.attrs
    /\ \E content \in NewContents :
          /\ content # FileContent(disk, self.SFH_file)
          /\ disk' = Written(disk, self.SFH_file, content)
    /\ UNCHANGED << calls, inits, driver, bulk, gal, pc, self, log, stdout, sn, gm, snrate,
                    all_results, sfr_ret, sn_returns, gm_returns, galaxies, results >>

\* The history attributes read by "time = self.sfh[:,0]; time[time < self.tend]"
\* are there and the history is not None.
GridReadable(s) == "sfh" \in s.attrs /\ ~s.sfh_none /\ "tend" \in s.attrs

\* Entry of supernova_rate (lines 310-315).
SnEnter ==
    IF GridReadable(self)
    THEN /\ sn' = SnInit(self)
         /\ pc' = "sn"
    ELSE /\ sn' = sn
         /\ pc' = "raised"

\* The entry with all_results kept from the previous call (a list created
\* once instead of per call).
GmEnter_KeepsResults ==
    IF "gasmass_init" \in self.attrs /\ GridReadable(self)
    THEN /\ gm' = [GmInit(self) EXCEPT !.all_results = gm.all_results]
         /\ pc' = "gm"
    ELSE /\ gm' = gm
         /\ pc' = "raised"

\* Entry of gas_metal_dust_mass (lines 156-179).
GmEnter ==
    IF "gasmass_init" \in self.attrs /\ GridReadable(self)
    THEN /\ gm' = GmInit(self)
         /\ pc' = "gm"
    ELSE /\ gm' = gm
         /\ pc' = "raised"

\* snrate = ch.supernova_rate() in a script.
CallSupernovaRate ==
    /\ driver = "script"
    /\ pc = "ready"
    /\ calls < MaxCalls
    /\ SnEnter
    /\ calls' = calls + 1
    /\ UNCHANGED << disk, inits, driver, bulk, gal, self, log, stdout, gm, snrate,
                    all_results, sfr_ret, sn_returns, gm_returns, galaxies, results >>

\* all_results = ch.gas_metal_dust_mass(snrate) in a script.
CallGasMetalDustMass ==
    /\ driver = "script"
    /\ pc = "ready"
    /\ calls < MaxCalls
    /\ GmEnter
    /\ calls' = calls + 1
    /\ UNCHANGED << disk, inits, driver, bulk, gal, self, log, stdout, sn, snrate,
                    all_results, sfr_ret, sn_returns, gm_returns, galaxies, results >>

\* initial_mass_function(m, self.imf_type) is evaluated at time t (the mass loop
\* has an iteration) with an alias that selects no IMF, and fails.
ImfFails(s, t) == MinMass(t) < MMax /\ ImfChoice(s.imf_type) = ""

\* One iteration of the loop of supernova_rate.
SupernovaRateStep ==
    /\ pc = "sn"
    /\ sn.k <= Len(sn.time)
    /\ IF ImfFails(self, sn.time[sn.k])
       THEN /\ pc' = "raised"
            /\ sn' = sn
       ELSE /\ sn' = SnIterate(self, sn)
            /\ pc' = pc
    /\ UNCHANGED << disk, inits, driver, bulk, gal, self, log, stdout, gm, snrate,
                    all_results, sfr_ret, sn_returns, gm_returns, galaxies, results,
                    calls >>

\* return np.array(sn_rate_list), assigned to snrate by the caller.
SupernovaRateReturn ==
    /\ pc = "sn"
    /\ sn.k > Len(sn.time)
    /\ snrate' = sn.sn_rate_list
    /\ sn_returns' = Append(sn_returns, [sn_rate |-> sn.sn_rate_list,
                                         sfh |-> self.sfh])
    /\ pc' = IF driver = "bulk" THEN "b_gm" ELSE "ready"
    /\ UNCHANGED << disk, inits, driver, bulk, gal, self, log, stdout, sn, gm,
                    all_results, sfr_ret, gm_returns, galaxies, results, calls >>

\* The attributes an iteration of the time loop reads (lines 200-261).
LoopAttrs ==
    {"inflows", "outflows", "destroy", "epsilon", "coldfraction",
     "availablefraction", "eff_snrate", "delta_lims", "reduce_sn", "choice_dust",
     "imf"}

\* One iteration of the time loop of gas_metal_dust_mass; sn_rate[item] raises
\* when the series is too short, and an attribute the constructor never set
\* (a key was missing, the IMF was never chosen) raises when it is read.
GasMetalDustMassStep ==
    /\ pc = "gm"
    /\ ~gm.broke
    /\ gm.item <= Len(gm.time)
    /\ IF gm.item > Len(snrate) \/ ~(LoopAttrs \subseteq self.attrs)
       THEN /\ pc' = "raised"
            /\ UNCHANGED << gm, stdout >>
       ELSE /\ gm' = GmIterate(self, gm, snrate)
            /\ stdout' = IF gm'.broke THEN Append(stdout, OopsMsg) ELSE stdout
            /\ pc' = pc
    /\ UNCHANGED << disk, inits, driver, bulk, gal, self, log, sn, snrate, all_results,
                    sfr_ret, sn_returns, gm_returns, galaxies, results, calls >>

\* return np.array(all_results), assigned to all_results by the caller.
GasMetalDustMassReturn ==
    /\ pc = "gm"
    /\ gm.broke \/ gm.item > Len(gm.time)
    /\ all_results' = gm.all_results
    /\ gm_returns' = Append(gm_returns, [all_results |-> gm.all_results,
                                         broke |-> gm.broke,
                                         sn_rate |-> snrate,
                                         sfh |-> self.sfh])
    /\ stdout' = Append(stdout, LoopMsg)
    /\ pc' = IF driver = "bulk" THEN "b_collect" ELSE "ready"
    /\ UNCHANGED << disk, inits, driver, bulk, gal, self, log, sn, gm, snrate,
                    sfr_ret, sn_returns, galaxies, results, calls >>

\* BulkEvolve(filename), lines 338-343: the name is kept when the file exists.
BulkInit ==
    /\ driver = "bulk"
    /\ pc = "b_new"
    /\ IF BatchName \in DOMAIN disk
       THEN /\ bulk' = [bulk EXCEPT !.attrs = @ \cup {"filename"}]
            /\ log' = log
       ELSE /\ bulk' = bulk
            /\ log' = Append(log, FileMissingMsg)
    /\ pc' = "b_idle"
    /\ UNCHANGED << disk, inits, driver, gal, self, stdout, sn, gm, snrate,
                    all_results, sfr_ret, sn_returns, gm_returns, galaxies, results,
                    calls >>

\* upload_json, lines 345-352: open(self.filename) raises AttributeError without
\* the attribute; json.load raises ValueError on a file that is not JSON, which
\* is logged; otherwise self.inits is what the file holds, a list or an object
\* (of an object the keys are kept: they are what a loop over it yields).
UploadJson ==
    /\ driver = "bulk"
    /\ pc \in {"b_idle", "done"}
    /\ calls < MaxCalls
    /\ IF "filename" \notin bulk.attrs
       THEN /\ pc' = "upload_raised"
            /\ UNCHANGED << bulk, inits, log >>
       ELSE IF disk[BatchName].kind \in {"list", "object"}
       THEN /\ bulk' = [attrs |-> bulk.attrs \cup {"inits"},
                        shape |-> disk[BatchName].kind,
                        keys |-> disk[BatchName].keys]
            /\ inits' = disk[BatchName].items
            /\ pc' = "b_idle"
            /\ log' = log
       ELSE /\ log' = Append(log, JsonMsg)
            /\ pc' = "b_idle"
            /\ UNCHANGED << bulk, inits >>
    /\ calls' = calls + 1
    /\ UNCHANGED << disk, driver, gal, self, stdout, sn, gm, snrate, all_results,
                    sfr_ret, sn_returns, gm_returns, galaxies, results >>

\* upload_csv, lines 354-385. np.genfromtxt(self.filename, ...) raises
\* AttributeError without the attribute. On a file whose lines differ in their
\* number of fields it raises ValueError, which is logged, and len(data) then
\* raises UnboundLocalError; a JSON file is not a table of rows either and ends
\* in an exception, logged or not. One row comes back as an array without
\* length and len(data) raises TypeError. Two or more rows become self.inits.
UploadCsv ==
    /\ driver = "bulk"
    /\ pc \in {"b_idle", "done"}
    /\ calls < MaxCalls
    /\ IF "filename" \notin bulk.attrs
       THEN /\ pc' = "upload_raised"
            /\ UNCHANGED << bulk, inits, log >>
       ELSE IF disk[BatchName].kind = "text"
       THEN /\ pc' = "upload_raised"
            /\ log' = Append(log, CsvMsg)
            /\ UNCHANGED << bulk, inits >>
       ELSE IF disk[BatchName].kind \in {"list", "object"}
       THEN /\ pc' = "upload_raised"
            /\ log' \in {log, Append(log, CsvMsg)}
            /\ UNCHANGED << bulk, inits >>
       ELSE IF Len(disk[BatchName].items) < 2
       THEN /\ pc' = "upload_raised"
            /\ UNCHANGED << bulk, inits, log >>
       ELSE /\ \E build \in Builds :
                  inits' = [i \in DOMAIN disk[BatchName].items |->
                              CsvItem(disk[BatchName].items[i], build)]
            /\ bulk' = [attrs |-> bulk.attrs \cup {"inits"}, shape |-> "list",
                        keys |-> <<>>]
            /\ pc' = "b_idle"
            /\ log' = log
    /\ calls' = calls + 1
    /\ UNCHANGED << disk, driver, gal, self, stdout, sn, gm, snrate, all_results,
                    sfr_ret, sn_returns, gm_returns, galaxies, results >>

\* What "for item in self.inits" goes through: the items of a list, the keys
\* of an object.
LoopItems == IF bulk.shape = "object" THEN bulk.keys ELSE inits

\* evolve_all, lines 400-404: the locals are reset and the loop over self.inits
\* starts; reading self.inits raises AttributeError when no upload set it. The
\* returns recorded are those of the evolve_all in progress.
EvolveAll ==
    /\ driver = "bulk"
    /\ pc \in {"b_idle", "done"}
    /\ calls < MaxCalls
    /\ snrate' = <<>>
    /\ all_results' = <<>>
    /\ galaxies' = <<>>
    /\ gal' = 1
    /\ sn_returns' = <<>>
    /\ gm_returns' = <<>>
    /\ pc' = IF "inits" \in bulk.attrs THEN "bulk" ELSE "raised"
    /\ calls' = calls + 1
    /\ UNCHANGED << disk, inits, driver, bulk, self, log, stdout, sn, gm, sfr_ret,
                    results >>

\* evolve_all, lines 404-406: the next item of self.inits, the warning with its
\* name, its model. The items of a JSON object are its keys, strings, and
\* item['name'] raises TypeError; an item without 'name' raises KeyError.
BulkConstruct ==
    /\ driver = "bulk"
    /\ pc = "bulk"
    /\ gal <= Len(LoopItems)
    /\ IF bulk.shape = "object"
       THEN /\ pc' = "raised"
            /\ UNCHANGED << self, log, stdout >>
       ELSE IF "name" \notin inits[gal].keys
       THEN /\ pc' = "raised"
            /\ UNCHANGED << self, log, stdout >>
       ELSE LET r == InitModel(inits[gal], disk)
            IN  /\ self' = r.self
                /\ log' = Append(log, StartMsg) \o r.logs
                /\ stdout' = stdout \o r.prints
                /\ pc' = AfterInit(r.outcome, "b_sn")
    /\ UNCHANGED << disk, inits, driver, bulk, gal, sn, gm, snrate, all_results,
                    sfr_ret, sn_returns, gm_returns, galaxies, results, calls >>

\* evolve_all, line 408.
BulkSupernovaRate ==
    /\ pc = "b_sn"
    /\ SnEnter
    /\ UNCHANGED << disk, inits, driver, bulk, gal, self, log, stdout, gm, snrate,
                    all_results, sfr_ret, sn_returns, gm_returns, galaxies, results,
                    calls >>

\* evolve_all, line 409.
BulkGasMetalDustMass ==
    /\ pc = "b_gm"
    /\ GmEnter
    /\ UNCHANGED << disk, inits, driver, bulk, gal, self, log, stdout, sn, snrate,
                    all_results, sfr_ret, sn_returns, gm_returns, galaxies, results,
                    calls >>

\* numpy's a/b on arrays: a zero divisor gives inf or nan and no exception;
\* the quotient is written 0 then.
ArrayDiv(a, b) == IF b = 0 THEN 0 ELSE Quot(a, b)

\* evolve_all, lines 411-426: the dictionary params, one column per key.
ParamsOf(ar) ==
    [time |-> [k \in DOMAIN ar |-> ar[k].t],
     mgas |-> [k \in DOMAIN ar |-> ar[k].mg],
     mstars |-> [k \in DOMAIN ar |-> ar[k].mstars],
     metalmass |-> [k \in DOMAIN ar |-> ar[k].metals],
     metallicity |-> [k \in DOMAIN ar |-> ar[k].metallicity],
     dustmass |-> [k \in DOMAIN ar |-> ar[k].md],
     dust_metals_ratio |-> [k \in DOMAIN ar |-> ar[k].dust_to_metals],
     sfr |-> [k \in DOMAIN ar |-> ar[k].sfr],
     dust_all |-> [k \in DOMAIN ar |-> ar[k].md_all],
     dust_stars |-> [k \in DOMAIN ar |-> ar[k].md_stars],
     dust_ism |-> [k \in DOMAIN ar |-> ar[k].md_gg],
     time_destroy |-> [k \in DOMAIN ar |-> ar[k].t_des],
     time_gg |-> [k \in DOMAIN ar |-> ar[k].t_gg],
     oxygenmass |-> [k \in DOMAIN ar |-> ar[k].oxymass],
     fg |-> [k \in DOMAIN ar |->
               ArrayDiv(ar[k].mg * FP, ar[k].mg + ar[k].mstars)],
     ssfr |-> [k \in DOMAIN ar |-> ArrayDiv(ar[k].sfr * FP, ar[k].mg)]]

\* The file t.write is given: str(name + '.dat').
DatFile(name) == name \o ".dat"

\* The collection with the newest galaxy put in front of the earlier ones.
BulkCollect_Prepends ==
    /\ pc = "b_collect"
    /\ IF all_results = <<>>
       THEN /\ pc' = "raised"
            /\ UNCHANGED << disk, galaxies, gal >>
       ELSE \/ /\ disk' = Written(disk, DatFile(inits[gal].name),
                                   ParamsOf(all_results))
               /\ galaxies' = << ParamsOf(all_results) >> \o galaxies
               /\ gal' = gal + 1
               /\ pc' = "bulk"
            \/ /\ DatFile(inits[gal].name) \in DOMAIN disk
               /\ pc' = "raised"
               /\ UNCHANGED << disk, galaxies, gal >>
    /\ UNCHANGED << inits, driver, bulk, self, log, stdout, sn, gm, snrate,
                    all_results, sfr_ret, sn_returns, gm_returns, results, calls >>

\* evolve_all, lines 411-433: the columns of all_results become the galaxy's
\* params (all_results[:,0] raises on an array without rows), the table is
\* written to "<name>.dat" and params is appended to galaxies. Where the file
\* exists already the astropy of the build either writes over it or raises.
BulkCollect ==
    /\ pc = "b_collect"
    /\ IF all_results = <<>>
       THEN /\ pc' = "raised"
            /\ UNCHANGED << disk, galaxies, gal >>
       ELSE \/ /\ disk' = Written(disk, DatFile(inits[gal].name),
                                   ParamsOf(all_results))
               /\ galaxies' = Append(galaxies, ParamsOf(all_results))
               /\ gal' = gal + 1
               /\ pc' = "bulk"
            \/ /\ DatFile(inits[gal].name) \in DOMAIN disk
               /\ pc' = "raised"
               /\ UNCHANGED << disk, galaxies, gal >>
    /\ UNCHANGED << inits, driver, bulk, self, log, stdout, sn, gm, snrate,
                    all_results, sfr_ret, sn_returns, gm_returns, results, calls >>

\* evolve_all, line 434: self.results = galaxies, once the loop is exhausted
\* (at once for an empty list and an empty object).
BulkFinish ==
    /\ driver = "bulk"
    /\ pc = "bulk"
    /\ gal > Len(LoopItems)
    /\ results' = <<galaxies>>
    /\ pc' = "done"
    /\ UNCHANGED << disk, inits, driver, bulk, gal, self, log, stdout, sn, gm,
                    snrate, all_results, sfr_ret, sn_returns, gm_returns, galaxies,
                    calls >>

Next ==
    \/ ScriptConstruct
    \/ CallSfr
    \/ CallLoadSfh
    \/ RewriteSfhFile
    \/ CallSupernovaRate
    \/ CallGasMetalDustMass
    \/ SupernovaRateStep
    \/ SupernovaRateReturn
    \/ GasMetalDustMassStep
    \/ GasMetalDustMassReturn

Spec == Init /\ [][Next]_vars

\* ------------------------------------------------------ the batch driver
\* The items of a batch: Configurations that run to the end or run out of gas,
\* one of them under a name of its own, and items with a missing key, an
\* unreadable SFH file or an unknown dust source.
BulkInputs ==
    { [BaseInputs EXCEPT !.gasmass_init = g, !.t_end = te] :
        g \in GasVals, te \in {TimeAt(GridLen), BigT} }
    \cup { [BaseInputs EXCEPT !.name = "dwarf", !.gasmass_init = 30000] }
    \cup { [BaseInputs EXCEPT !.keys = @ \ {k}] :
             k \in {"name", "gasmass_init", "destroy", "epsilon_grain"} }
    \cup { [BaseInputs EXCEPT !.SFH = "bad.sfh"],
           [BaseInputs EXCEPT !.dust_source = "dust"] }

\* The rows of a CSV batch: every column is there in every row.
CsvInputs ==
    { BaseInputs,
      [BaseInputs EXCEPT !.name = "dwarf", !.gasmass_init = 30000],
      [BaseInputs EXCEPT !.dust_source = "dust"] }

RECURSIVE SeqsUpTo(_, _)
SeqsUpTo(S, n) ==
    IF n = 0 THEN {<<>>}
    ELSE LET shorter == SeqsUpTo(S, n - 1)
         IN  shorter \cup {Append(q, x) : q \in shorter, x \in S}

\* What the batch file holds: a JSON list of Configurations (or an empty one),
\* a JSON object (empty, or with a key), a CSV table of one row or more, or
\* text that is neither.
BatchFiles ==
    { [kind |-> "list", items |-> q, keys |-> <<>>] :
        q \in SeqsUpTo(BulkInputs, MaxBatch) }
    \cup { [kind |-> "csv", items |-> q, keys |-> <<>>] :
             q \in SeqsUpTo(CsvInputs, MaxBatch) \ {<<>>} }
    \cup { [kind |-> "object", items |-> <<>>, keys |-> <<>>],
           [kind |-> "object", items |-> <<>>, keys |-> <<"name">>],
           [kind |-> "text", items |-> <<>>, keys |-> <<>>] }

\* The SFH files and the batch file.
DiskWith(files, b) ==
    [f \in DOMAIN files \cup {BatchName} |->
       IF f = BatchName THEN b ELSE files[f]]

\* A script is about to build a BulkEvolve on a batch file that may not exist.
InitBulk ==
    /\ \E v \in SfrVals :
          \/ disk = Disk([i \in 1..GridLen |-> v])
          \/ \E b \in BatchFiles :
                disk = DiskWith(Disk([i \in 1..GridLen |-> v]), b)
    /\ inits = <<>>
    /\ driver = "bulk"
    /\ pc = "b_new"
    /\ InitCommon

NextBulk ==
    \/ BulkInit
    \/ UploadJson
    \/ UploadCsv
    \/ EvolveAll
    \/ BulkConstruct
    \/ BulkSupernovaRate
    \/ BulkGasMetalDustMass
    \/ SupernovaRateStep
    \/ SupernovaRateReturn
    \/ GasMetalDustMassStep
    \/ GasMetalDustMassReturn
    \/ BulkCollect
    \/ BulkFinish

SpecBulk == InitBulk /\ [][NextBulk]_vars

\* ================================================================ claims
\* ----------------------------------------------------------------- C1
\* C1: the time column of every sequence gas_metal_dust_mass returns is
\* strictly increasing, every recorded time is below t_end, and record k
\* carries the k-th time of the grid truncated to t < t_end.
C1_TimeColumnIsGridPrefix ==
    \A i \in DOMAIN gm_returns :
        LET r == gm_returns[i].all_results
            grid == SelectSeq(Column(gm_returns[i].sfh, 1), LAMBDA t : t < self.tend)
        IN  /\ Len(r) <= Len(grid)
            /\ \A k \in 1..Len(r) :
                  /\ r[k].t = grid[k]
                  /\ r[k].t < self.tend
                  /\ k > 1 => r[k - 1].t < r[k].t

\* A run that was not cut short returned three or more records of a grid that
\* t_end truncated.
C1_Witness ==
    \E i \in DOMAIN gm_returns :
        /\ ~gm_returns[i].broke
        /\ Len(gm_returns[i].all_results) >= 3
        /\ Len(gm_returns[i].all_results) < Len(gm_returns[i].sfh)

\* ----------------------------------------------------------------- C2
\* C2: a step that appends record k after record k-1 leaves
\* gas_k = gas_(k-1) + (-sfr + ejected gas + inflow - outflow) * dt_k with dt_k
\* the time since the previous grid point and the rates evaluated at step k from
\* the state step k-1 left; metals, oxygen, dust and stars are updated alike.
C2_StepUpdate ==
    [][ ( /\ pc = "gm"
          /\ Len(gm.all_results) >= 1
          /\ Len(gm'.all_results) = Len(gm.all_results) + 1 )
        => LET prev == Last(gm.all_results)
               cur == Last(gm'.all_results)
               dt == cur.t - prev.t
               r == Rates(self, gm, snrate[gm.item], cur.t)
               g == gas_inandout(self.inflows.on, self.outflows.on,
                                 self.inflows.xSFR, cur.sfr, prev.mstars)
               ej == cur.sfr - r.dmstars
           IN  /\ cur.t = gm.time[gm.item]
               /\ prev.t = gm.time[gm.item - 1]
               /\ cur.mg = prev.mg + (-cur.sfr + ej + g[1] - g[2]) * dt
               /\ cur.mstars = prev.mstars + r.dmstars * dt
               /\ cur.metals = prev.metals + r.dmetals * dt
               /\ cur.oxymass = prev.oxymass + r.doxymass * dt
               /\ cur.md = prev.md + r.ddust * dt
      ]_vars

\* Three records, the last one appended after a step longer than one time unit
\* in which gas, metals and dust all changed.
C2_Witness ==
    /\ pc = "gm"
    /\ Len(gm.all_results) >= 3
    /\ gm.rates.dt > 1
    /\ gm.rates.dmg # 0 /\ gm.rates.dmetals # 0 /\ gm.rates.ddust # 0
    /\ Last(gm.all_results).mg # gm.all_results[Len(gm.all_results) - 1].mg
    /\ self.inflows.on

\* ----------------------------------------------------------------- C3
\* C3: in every Result Record the dust-to-metal ratio is >= 0, and exactly 0
\* whenever the record's gas mass or metal mass is <= 0.
C3_RatioNonNegative ==
    \A i \in DOMAIN gm_returns :
        \A k \in DOMAIN gm_returns[i].all_results :
            LET rec == gm_returns[i].all_results[k]
            IN  /\ rec.dust_to_metals >= 0
                /\ (rec.mg <= 0 \/ rec.metals <= 0) => rec.dust_to_metals = 0

\* ----------------------------------------------------------------- C4
\* C4: when a step drives the gas mass to <= 0 the loop stops without appending
\* a record for it: the sequence is shorter than the truncated grid and every
\* record of it, the last one included, carries a positive gas mass; up to the
\* stop the last record holds the gas mass the loop works with.
C4_StopsWithoutRecord ==
    /\ (pc = "gm" /\ gm.broke)
          => /\ gm.mg <= 0
             /\ Len(gm.all_results) = gm.item - 1
             /\ Len(gm.all_results) < Len(gm.time)
             /\ \A k \in DOMAIN gm.all_results : gm.all_results[k].mg > 0
    /\ (pc = "gm" /\ ~gm.broke /\ gm.all_results # <<>>)
          => Last(gm.all_results).mg = gm.mg /\ gm.mg > 0
    /\ \A i \in DOMAIN gm_returns :
          gm_returns[i].broke
             => /\ Len(gm_returns[i].all_results)
                     < Len(TimeGrid([self EXCEPT !.sfh = gm_returns[i].sfh]))
                /\ \A k \in DOMAIN gm_returns[i].all_results :
                      gm_returns[i].all_results[k].mg > 0

\* A run that ran out of gas returned two or more records.
C4_Witness ==
    \E i \in DOMAIN gm_returns :
        /\ gm_returns[i].broke
        /\ Len(gm_returns[i].all_results) >= 2
        /\ OopsMsg \in {stdout[j] : j \in DOMAIN stdout}

\* ----------------------------------------------------------------- C5
\* C5: on one instance every call of supernova_rate with the same history
\* returns the same series and every call of gas_metal_dust_mass with that
\* history and that series returns the same Result Record sequence, ended the
\* same way.
C5_RunsRepeat ==
    /\ \A i, j \in DOMAIN sn_returns :
          sn_returns[i].sfh = sn_returns[j].sfh
             => sn_returns[i].sn_rate = sn_returns[j].sn_rate
    /\ \A i, j \in DOMAIN gm_returns :
          (gm_returns[i].sn_rate = gm_returns[j].sn_rate
             /\ gm_returns[i].sfh = gm_returns[j].sfh)
             => /\ gm_returns[i].all_results = gm_returns[j].all_results
                /\ gm_returns[i].broke = gm_returns[j].broke

\* supernova_rate then gas_metal_dust_mass ran twice and returned records.
C5_Witness ==
    /\ Len(sn_returns) = 2
    /\ Len(gm_returns) = 2
    /\ Len(gm_returns[2].all_results) >= 2
    /\ sn_returns[1].sfh = sn_returns[2].sfh
    /\ gm_returns[1].sfh = gm_returns[2].sfh
    /\ gm_returns[1].sn_rate = gm_returns[2].sn_rate
    /\ \E k \in DOMAIN sn_returns[2].sn_rate : sn_returns[2].sn_rate[k] > 0

\* ----------------------------------------------------------------- C6
\* C6: with dust_source one of "SN", "Sn", "sn" the grain growth flag is False,
\* the grain growth rate of every step is 0 and md_gg is 0 in every record.
C6_NoGrainGrowthForSN ==
    (pc # "start" /\ inits[1].dust_source \in SNAliases /\ "choice_dust" \in self.attrs)
       => /\ ~self.choice_dust.gg
          /\ gm.rates.mdust_gg = 0
          /\ \A k \in DOMAIN gm.all_results : gm.all_results[k].md_gg = 0
          /\ \A i \in DOMAIN gm_returns :
                \A k \in DOMAIN gm_returns[i].all_results :
                    gm_returns[i].all_results[k].md_gg = 0

\* An SN-only run returned records that hold dust, none of it grown in the ISM.
C6_Witness ==
    /\ inits[1].dust_source \in SNAliases
    /\ \E i \in DOMAIN gm_returns :
          /\ Len(gm_returns[i].all_results) >= 3
          /\ \E k \in DOMAIN gm_returns[i].all_results :
                /\ gm_returns[i].all_results[k].md > 0
                /\ gm_returns[i].all_results[k].md_all > 0

\* ----------------------------------------------------------------- C7
\* C7: when evolve_all has ended, by returning or by a failure of one item,
\* the result of every configuration that runs on its own has been collected.
C7_SiblingsStillRun ==
    (pc \in {"done", "raised", "exited"} /\ bulk.shape = "list")
       => LET runs(c) == /\ "name" \in c.keys
                         /\ FirstMissing(c) > Len(KeyOrder)
                         /\ DustSourceKnown(c.dust_source)
                         /\ Parses(FileContent(disk, FileName(c)))
          IN  Len(galaxies) = Cardinality({i \in DOMAIN inits : runs(inits[i])})

\* ----------------------------------------------------------------- C8
\* C8: what a run returns tells a run that reached the end of its time grid
\* from a run that stopped because the gas was exhausted.
C8_StatusDistinguishesExits ==
    \A i, j \in DOMAIN gm_returns :
        gm_returns[i].broke # gm_returns[j].broke
           => gm_returns[i].all_results # gm_returns[j].all_results

\* ----------------------------------------------------------------- C9
\* C9: with a required parameter missing the error is logged and the run of
\* that Configuration ends: neither supernova_rate nor gas_metal_dust_mass of
\* the instance gets to run, and no series and no record is ever returned.
C9_MissingParameterEndsRun ==
    (FirstMissing(inits[1]) <= Len(KeyOrder) /\ pc # "start")
       => /\ NoParamsMsg \in {log[j] : j \in DOMAIN log}
          /\ pc \notin {"sn", "gm"}
          /\ sn_returns = <<>> /\ gm_returns = <<>>

\* ---------------------------------------------------------------- C10
\* C10 as stated: once load_sfh has left the history absent (sfh is None) the
\* error is logged, and sfr, supernova_rate and gas_metal_dust_mass all fail
\* instead of returning.
C10_EveryLookupFails ==
    ("sfh" \in self.attrs /\ self.sfh_none)
       => /\ NoParseMsg \in {log[j] : j \in DOMAIN log}
          /\ pc \notin {"sn", "gm"}
          /\ sfr_ret.kind = "unset"

\* C10 amended: the load_sfh of the constructor leaves sfh None exactly when
\* the file cannot be read or parsed, logs, and does not raise, so
\* construction completes; on
\* such an instance supernova_rate and gas_metal_dust_mass raise before any
\* iteration and nothing is returned from an absent history; sfr does not
\* raise, it logs "No SFH yet" and returns None.
C10_LookupsFailOrReturnNone ==
    /\ (pc # "start" /\ calls = 0 /\ "sfh" \in self.attrs)
          => (self.sfh_none <=> inits[1].SFH \in {"bad.sfh", "none.sfh"})
    /\ (inits[1].SFH \in {"bad.sfh", "none.sfh"} /\ pc # "start" /\ calls = 0
          /\ FirstMissing(inits[1]) > Len(KeyOrder))
          => /\ "sfh" \in self.attrs /\ self.sfh_none
             /\ "choice_dust" \in self.attrs
             /\ pc = "ready"
    /\ ("sfh" \in self.attrs /\ self.sfh_none)
          => /\ NoParseMsg \in {log[j] : j \in DOMAIN log}
             /\ self.sfh = <<>>
             /\ pc \notin {"sn", "gm"}
             /\ \A t \in SfrTimes : sfr_call(self, t).kind = "none"
    /\ sfr_ret.kind = "none" => NoSfhMsg \in {log[j] : j \in DOMAIN log}
    /\ \A j \in DOMAIN sn_returns : sn_returns[j].sfh # <<>>
    /\ \A i \in DOMAIN gm_returns : gm_returns[i].sfh # <<>>

\* A file that parsed at construction was written anew and read again: the history
\* is absent, sfr returned None and an engine method raised.
C10_Witness ==
    /\ inits[1].SFH = "a.sfh"
    /\ "sfh" \in self.attrs /\ self.sfh_none
    /\ sfr_ret.kind = "none"
    /\ pc = "raised"

\* ---------------------------------------------------------------- C11
\* C11: the series supernova_rate returns has one rate per grid time with
\* t < t_end, in grid order, each the rate computed for that grid time; while
\* gas_metal_dust_mass of the same instance runs on it, the index it reads next
\* is in range, and the series it ends with is the series it was given.
C11_SeriesMatchesGrid ==
    LET grid == SelectSeq(Column(self.sfh, 1), LAMBDA t : t < self.tend)
        rate(t, dm) == Quot(sfr(self, t)
                              * MassLoop(MinMass(t), dm, 0, self.imf_type).sn_rate,
                            SnUnit)
    IN  /\ pc = "sn"
              => /\ sn.time = grid
                 /\ Len(sn.sn_rate_list) = sn.k - 1
                 /\ sn.k > 1
                       => Last(sn.sn_rate_list)
                             \in {rate(grid[sn.k - 1], dm) : dm \in {DmFine, DmCoarse}}
        /\ (pc # "sn" /\ sn_returns # <<>>)
              => /\ Last(sn_returns).sn_rate = sn.sn_rate_list
                 /\ snrate = sn.sn_rate_list
        /\ \A j \in DOMAIN sn_returns :
              Len(sn_returns[j].sn_rate)
                 = Len(TimeGrid([self EXCEPT !.sfh = sn_returns[j].sfh]))
        /\ pc = "gm" => gm.time = grid
        /\ (pc = "gm" /\ sn_returns # <<>> /\ Last(sn_returns).sfh = self.sfh
              /\ gm.item <= Len(gm.time))
              => gm.item \in DOMAIN snrate
        /\ \A i \in DOMAIN gm_returns :
              \E j \in DOMAIN sn_returns :
                  gm_returns[i].sn_rate = sn_returns[j].sn_rate

\* The integration is about to read the last rate of a series of three or more
\* rates, a positive one.
C11_Witness ==
    /\ pc = "gm"
    /\ ~gm.broke
    /\ Len(snrate) >= 3
    /\ gm.item = Len(snrate)
    /\ snrate[gm.item] > 0
    /\ snrate[1] = 0

\* ---------------------------------------------------------------- C12
\* C12: in every Result Record the metallicity field equals the record's metal
\* mass divided by the record's gas mass.
C12_MetallicityOfRecord ==
    \A i \in DOMAIN gm_returns :
        \A k \in DOMAIN gm_returns[i].all_results :
            LET rec == gm_returns[i].all_results[k]
            IN  rec.metallicity = Quot(rec.metals * FP, rec.mg)

\* ---------------------------------------------------------------- C13
\* C13: every reservoir written to a Result Record (gas, stars, metals, oxygen,
\* dust, md_all, md_stars, md_gg) is non-negative.
C13_ReservoirsNonNegative ==
    \A i \in DOMAIN gm_returns :
        \A k \in DOMAIN gm_returns[i].all_results :
            LET rec == gm_returns[i].all_results[k]
            IN  /\ rec.mg >= 0 /\ rec.mstars >= 0
                /\ rec.metals >= 0 /\ rec.oxymass >= 0
                /\ rec.md >= 0
                /\ rec.md_all >= 0 /\ rec.md_stars >= 0 /\ rec.md_gg >= 0

\* ---------------------------------------------------------------- C14
\* C14: evolve_all takes the items of self.inits in input order; for each item
\* it builds one model, calls supernova_rate once, then gas_metal_dust_mass once
\* with that call's output, and only then goes to the next item; self.results
\* holds one entry per item in input order (and each item's table is on disk
\* under the item's name).
C14_OneItemAtATime ==
    /\ pc = "bulk" => /\ Len(sn_returns) = gal - 1
                      /\ Len(gm_returns) = gal - 1
                      /\ Len(galaxies) = gal - 1
    /\ pc \in {"b_sn", "sn"} => /\ Len(sn_returns) = gal - 1
                                /\ Len(gm_returns) = gal - 1
                                /\ Len(galaxies) = gal - 1
    /\ pc \in {"b_gm", "gm", "b_collect"}
          => /\ Len(sn_returns) = gal
             /\ snrate = sn_returns[gal].sn_rate
             /\ Len(galaxies) = gal - 1
    /\ pc \in {"b_gm", "gm"} => Len(gm_returns) = gal - 1
    /\ pc = "b_collect" => /\ Len(gm_returns) = gal
                           /\ all_results = gm_returns[gal].all_results
    /\ \A i \in DOMAIN gm_returns : gm_returns[i].sn_rate = sn_returns[i].sn_rate
    /\ pc \notin {"b_idle", "upload_raised"} => \A i \in DOMAIN galaxies :
          /\ i \in DOMAIN gm_returns
          /\ galaxies[i] = ParamsOf(gm_returns[i].all_results)
          /\ galaxies[i].mgas[1] = inits[i].gasmass_init
          /\ \A k \in DOMAIN galaxies[i].time :
                galaxies[i].time[k] < inits[i].t_end
          /\ DatFile(inits[i].name) \in DOMAIN disk
          /\ (\A j \in DOMAIN galaxies : j > i => inits[j].name # inits[i].name)
                => disk[DatFile(inits[i].name)] = galaxies[i]
    /\ pc = "done" => /\ results = << galaxies >>
                      /\ Len(galaxies) = Len(LoopItems)

\* evolve_all returned after two galaxies of different names and gas masses.
C14_Witness ==
    /\ pc = "done"
    /\ Len(inits) = 2
    /\ inits[1].gasmass_init # inits[2].gasmass_init
    /\ inits[1].name # inits[2].name
    /\ Len(results[1]) = 2
    /\ Len(sn_returns) = 2
    /\ Len(gm_returns) = 2

\* ---------------------------------------------------------------- C15
\* C15: for every grid time processed by supernova_rate, not only the first,
\* the sum over progenitor mass runs from the minimum mass to 40 Msun with step
\* 0.01 while the mass is below 10 Msun and step 0.5 above it.
C15_StepByMassAtEveryTime ==
    (pc = "sn" /\ sn.k <= Len(sn.time) /\ ~ImfFails(self, sn.time[sn.k]))
        => /\ MinMass(sn.time[sn.k]) <= MCoarse => sn.dm = DmFine
           /\ MassLoop(MinMass(sn.time[sn.k]), sn.dm, 0, self.imf_type).sn_rate
                = MassLoop(MinMass(sn.time[sn.k]), DmFine, 0, self.imf_type).sn_rate

\* ---------------------------------------------------------------- C16
\* C16: gas_metal_dust_mass ends in one of two ways: it returns as many records
\* as the truncated grid has points exactly when the gas mass stayed > 0 after
\* every step; otherwise it returns the records of the steps before the first
\* step whose gas update gave gas <= 0, and the exhaustion raises nothing: the
\* loop takes no further step and the call returns.
C16_TwoTerminalStates ==
    /\ \A i \in DOMAIN gm_returns :
          LET r == gm_returns[i]
              grid == TimeGrid([self EXCEPT !.sfh = gm_returns[i].sfh])
          IN  /\ (Len(r.all_results) = Len(grid)) <=> ~r.broke
              /\ r.broke => Len(r.all_results) < Len(grid)
              /\ \A k \in DOMAIN r.all_results :
                    /\ r.all_results[k].mg > 0
                    /\ r.all_results[k].t = grid[k]
    /\ (pc = "gm" /\ (gm.broke \/ gm.item > Len(gm.time)))
          => /\ ENABLED GasMetalDustMassReturn
             /\ ~ENABLED GasMetalDustMassStep
    /\ (pc = "gm" /\ ~gm.broke /\ gm.item <= Len(gm.time))
          => ~ENABLED GasMetalDustMassReturn
    /\ (pc = "ready" /\ gm_returns # <<>>)
          => /\ Last(gm_returns).all_results = gm.all_results
             /\ Last(gm_returns).broke = gm.broke
             /\ gm.broke <=> gm.mg <= 0

\* A call that ran out of gas after two or more steps has returned its records.
C16_Witness ==
    /\ pc = "ready"
    /\ gm.broke
    /\ gm.mg <= 0
    /\ Len(gm.all_results) >= 2
    /\ gm_returns # <<>>
    /\ Last(gm_returns).all_results = gm.all_results

\* ---------------------------------------------------------------- C17
\* C17: the integration starts from gas = gasmass_init, every other reservoir 0
\* and previous time 1e-3 Gyr; when the first grid time is 1e-3 Gyr the first
\* step has dt = 0 and the first Result Record shows gas = gasmass_init and
\* every other reservoir, the metallicity and the dust-to-metal ratio at 0.
C17_FirstRecordIsInitialState ==
    /\ (pc = "gm" /\ gm.item = 1 /\ ~gm.broke)
          => /\ gm.mg = self.gasmass_init
             /\ gm.prev_t = T0
             /\ gm.mstars = 0 /\ gm.metals = 0 /\ gm.oxymass = 0
             /\ gm.md = 0 /\ gm.md_all = 0 /\ gm.md_stars = 0 /\ gm.md_gg = 0
             /\ gm.all_results = <<>>
    /\ (pc = "gm" /\ gm.item = 2 /\ ~gm.broke /\ gm.time[1] = T0)
          => /\ gm.rates.dt = 0
             /\ Len(gm.all_results) = 1
    /\ \A i \in DOMAIN gm_returns :
          (gm_returns[i].all_results # <<>> /\ gm_returns[i].all_results[1].t = T0)
             => LET rec == gm_returns[i].all_results[1]
                IN  /\ rec.mg = self.gasmass_init
                    /\ rec.mstars = 0 /\ rec.metals = 0 /\ rec.oxymass = 0
                    /\ rec.md = 0 /\ rec.md_all = 0
                    /\ rec.md_stars = 0 /\ rec.md_gg = 0
                    /\ rec.metallicity = 0
                    /\ rec.dust_to_metals = 0

\* A returned sequence starts at 1e-3 Gyr with stars forming at that time, and
\* its later records have moved away from the initial state.
C17_Witness ==
    \E i \in DOMAIN gm_returns :
        /\ Len(gm_returns[i].all_results) >= 2
        /\ gm_returns[i].all_results[1].t = T0
        /\ gm_returns[i].all_results[1].sfr > 0
        /\ gm_returns[i].all_results[1].mg = self.gasmass_init
        /\ gm_returns[i].all_results[2].mg # self.gasmass_init
        /\ gm_returns[i].all_results[2].mstars > 0

\* ---------------------------------------------------------------- C18
\* C18: an IMF selector or a dust-source selector that is not a recognised
\* alias is rejected when the ChemModel is constructed; construction never
\* completes with the IMF function or the dust-source choice left undefined.
C18_UnknownSelectorRejected ==
    /\ pc = "ready" => /\ "imf" \in self.attrs
                       /\ "choice_dust" \in self.attrs
    /\ (pc \notin {"start", "raised", "exited"})
          => /\ ImfChoice(inits[1].IMF_fn) # ""
             /\ DustSourceKnown(inits[1].dust_source)

\* ---------------------------------------------------------------- C19
\* C19: each completed integration step appends exactly one record to the
\* result sequence and leaves every earlier record unchanged; a step that
\* exhausts the gas appends nothing; the returned array holds exactly the
\* appended records in step order.
C19_AppendOnly ==
    [][ /\ (pc = "gm" /\ pc' = "gm" /\ gm' # gm)
           => \/ /\ gm'.broke
                 /\ gm'.all_results = gm.all_results
              \/ /\ ~gm'.broke
                 /\ Len(gm'.all_results) = Len(gm.all_results) + 1
                 /\ SubSeq(gm'.all_results, 1, Len(gm.all_results)) = gm.all_results
                 /\ Last(gm'.all_results).t = gm.time[gm.item]
                 /\ gm'.item = gm.item + 1
        /\ (pc = "gm" /\ pc' \notin {"gm", "raised"})
           => /\ all_results' = gm.all_results
              /\ gm' = gm
              /\ gm_returns' = Append(gm_returns, [all_results |-> gm.all_results,
                                                   broke |-> gm.broke,
                                                   sn_rate |-> snrate,
                                                   sfh |-> self.sfh])
              /\ \A k \in DOMAIN gm.all_results : gm.all_results[k].t = gm.time[k]
        /\ pc # "gm" => /\ all_results' = all_results
                        /\ gm_returns' = gm_returns
      ]_vars

\* The third step of a call has just appended the third record, which differs
\* from the second.
C19_Witness ==
    /\ pc = "gm"
    /\ ~gm.broke
    /\ gm.item = 4
    /\ Len(gm.all_results) = 3
    /\ gm.all_results[3].mg # gm.all_results[2].mg
    /\ gm.all_results[3].metals # gm.all_results[2].metals

\* ---------------------------------------------------------------- C20
\* C20: after construction the supernova-dust reduction factor the engine uses
\* is never 0: it is 1 when reduce_sn_dust is switched off or its factor is 0,
\* and the configured factor otherwise; the input dictionary reduce_sn_dust
\* keeps its two entries.
C20_ReductionFactorNeverZero ==
    "choice_dust" \in self.attrs
       => /\ self.reduce_sn # 0
          /\ self.reduce_sn = IF ~inits[1].reduce_sn_dust.on
                                 \/ inits[1].reduce_sn_dust.factor = 0
                              THEN 1
                              ELSE inits[1].reduce_sn_dust.factor
          /\ DOMAIN inits[1].reduce_sn_dust = {"on", "factor"}
          /\ inits[1].reduce_sn_dust \in Reduces \cup {BaseInputs.reduce_sn_dust}

\* A model built with the reduction switched on and a factor of 0 has run the
\* engine with a factor of 1.
C20_Witness ==
    /\ "choice_dust" \in self.attrs
    /\ inits[1].reduce_sn_dust = [on |-> TRUE, factor |-> 0]
    /\ self.reduce_sn = 1
    /\ \E i \in DOMAIN gm_returns : Len(gm_returns[i].all_results) >= 2

\* ---------------------------------------------------------------- C21
\* C21: with a positive initial gas mass, the gas mass is > 0 at the start of
\* every loop iteration and in every Result Record, so metals/mg, oxymass/mg
\* and md/mg are evaluated with a positive denominator.
C21_GasPositiveAtEveryIteration ==
    /\ (pc = "gm" /\ ~gm.broke /\ gm.item <= Len(gm.time))
          => /\ self.gasmass_init > 0
             /\ gm.mg > 0
             /\ gm.item = 1 => gm.mg = self.gasmass_init
             /\ gm.item > 1 => gm.mg = Last(gm.all_results).mg
    /\ pc = "gm" => \A k \in DOMAIN gm.all_results : gm.all_results[k].mg > 0
    /\ \A i \in DOMAIN gm_returns :
          \A k \in DOMAIN gm_returns[i].all_results :
              gm_returns[i].all_results[k].mg > 0

\* The third iteration is about to run on gas that star formation has reduced,
\* with metals and dust present.
C21_Witness ==
    /\ pc = "gm"
    /\ ~gm.broke
    /\ gm.item = 3
    /\ gm.item <= Len(gm.time)
    /\ gm.mg > 0
    /\ gm.mg < self.gasmass_init
    /\ gm.metals > 0
    /\ gm.md > 0

\* ---------------------------------------------------------------- C22
\* C22: with inflows and outflows both switched off, gas mass + stellar mass
\* equals the initial gas mass in every Result Record: each step moves
\* (sfr - ejected gas) * dt from gas to stars and nothing else changes either.
C22_GasPlusStarsConserved ==
    (~inits[1].inflows.on /\ ~inits[1].outflows.on)
       => /\ \A i \in DOMAIN gm_returns :
                \A k \in DOMAIN gm_returns[i].all_results :
                    LET r == gm_returns[i].all_results
                    IN  /\ r[k].mg + r[k].mstars = inits[1].gasmass_init
                        /\ k > 1 => r[k].mstars - r[k - 1].mstars
                                      = r[k - 1].mg - r[k].mg
          /\ (pc = "gm" /\ gm.item > 1)
                => /\ gm.mg + gm.mstars = self.gasmass_init
                   /\ gm.rates.dmg = -gm.rates.dmstars
                   /\ ~gm.broke => Last(gm.all_results).mstars
                                     = self.gasmass_init - gm.mg

\* A closed-box run returned three or more records in which stars formed and
\* dying stars returned gas (the stars grew by less than sfr * dt).
C22_Witness ==
    /\ ~inits[1].inflows.on /\ ~inits[1].outflows.on
    /\ \E i \in DOMAIN gm_returns :
          LET r == gm_returns[i].all_results
          IN  /\ Len(r) >= 3
              /\ r[3].mstars > r[2].mstars
              /\ r[3].mstars - r[2].mstars < r[3].sfr * (r[3].t - r[2].t)
              /\ r[3].mg + r[3].mstars = inits[1].gasmass_init

\* ---------------------------------------------------------------- C23
\* C23: in every Result Record the cumulative dust-source mass is the sum of
\* its two components, md_all = md_stars + md_gg: the three are advanced in the
\* same step with the same dt and are skipped together on the exhausting step.
C23_DustSourcesAddUp ==
    /\ \A i \in DOMAIN gm_returns :
          \A k \in DOMAIN gm_returns[i].all_results :
              LET rec == gm_returns[i].all_results[k]
              IN  rec.md_all = rec.md_stars + rec.md_gg
    /\ pc = "gm" => /\ gm.md_all = gm.md_stars + gm.md_gg
                    /\ gm.rates.dust_source_all
                         = gm.rates.mdust_stars + gm.rates.mdust_gg
                    /\ gm.all_results # <<>>
                          => /\ Last(gm.all_results).md_all = gm.md_all
                             /\ Last(gm.all_results).md_stars = gm.md_stars
                             /\ Last(gm.all_results).md_gg = gm.md_gg

\* A returned record in which both the stellar and the grain-growth source
\* have contributed.
C23_Witness ==
    \E i \in DOMAIN gm_returns :
        \E k \in DOMAIN gm_returns[i].all_results :
            LET rec == gm_returns[i].all_results[k]
            IN  /\ rec.md_stars > 0
                /\ rec.md_gg # 0
                /\ rec.md_all = rec.md_stars + rec.md_gg

====
